---- MODULE Spec2Model ----
(***************************************************************************)
(* email-text-extractor (src/main.py): a sequential pipeline               *)
(*   parse_arguments -> load_regex_patterns -> load_config ->              *)
(*   strptime(start_date) -> strptime(end_date) -> read_outlook_emails ->  *)
(*   print loop with extract_items on every Body.                          *)
(* Text is modelled as a sequence of one-character strings, so that        *)
(* parsing, formatting and regex search are computed on characters.        *)
(***************************************************************************)
EXTENDS Integers, Sequences, FiniteSets, TLC

VARIABLES
    \* ---- the run of main() ----
    pc,              \* the statement of main() the run is at
    argv,            \* the command-line flags given
    args,            \* argparse.Namespace returned by parse_arguments
    opened,          \* the files open() succeeded on, in order
    regex_patterns,  \* main's regex_patterns (ordered mapping item -> pattern)
    config,          \* main's config (mapping key -> string)
    start_date,      \* main's start_date (datetime)
    end_date,        \* main's end_date (datetime)
    inbox,           \* the provider's inbox at the time of the query
    minuteGranular,  \* how the provider compares a received time to a filter literal
    filter_str,      \* the filter string handed to Items.Restrict
    emails,          \* main's emails
    idx,             \* index of the email the print loop is at
    key,             \* index of the key of that email the loop is at
    stdout,          \* the lines printed so far
    error,           \* the uncaught exception that ended the run ("" if none)
    stages,          \* history: the stages of main() entered, in order
    queries,         \* history: number of provider queries made
    \* ---- extract_items as a function ----
    ex_pc, ex_text, ex_patterns, ex_result,
    \* ---- strptime / strftime as functions ----
    dt_pc, dt_string, dt_parsed, dt_out

mainVars == <<pc, argv, args, opened, regex_patterns, config, start_date, end_date,
              inbox, minuteGranular, filter_str, emails, idx, key, stdout, error,
              stages, queries>>
exVars == <<ex_pc, ex_text, ex_patterns, ex_result>>
dtVars == <<dt_pc, dt_string, dt_parsed, dt_out>>
vars == <<mainVars, exVars, dtVars>>

None == "None"

----------------------------------------------------------------------------
(* Characters and numbers *)

Digits == {"0", "1", "2", "3", "4", "5", "6", "7", "8", "9"}

DigitVal == ("0" :> 0) @@ ("1" :> 1) @@ ("2" :> 2) @@ ("3" :> 3) @@ ("4" :> 4) @@
            ("5" :> 5) @@ ("6" :> 6) @@ ("7" :> 7) @@ ("8" :> 8) @@ ("9" :> 9)

DigitChar == <<"0", "1", "2", "3", "4", "5", "6", "7", "8", "9">>

IsDigit(s, i) == i >= 1 /\ i <= Len(s) /\ s[i] \in Digits

CharAt(s, i) == IF i >= 1 /\ i <= Len(s) THEN s[i] ELSE None

\* int() of the digits s[i..j]
RECURSIVE IntOf(_, _, _)
IntOf(s, i, j) == IF j < i THEN 0 ELSE IntOf(s, i, j - 1) * 10 + DigitVal[s[j]]

\* number of consecutive digits of s starting at i
RECURSIVE DigitRun(_, _)
DigitRun(s, i) == IF IsDigit(s, i) THEN 1 + DigitRun(s, i + 1) ELSE 0

\* number of consecutive spaces of s starting at i
RECURSIVE SpaceRun(_, _)
SpaceRun(s, i) == IF CharAt(s, i) = " " THEN 1 + SpaceRun(s, i + 1) ELSE 0

\* n written with at least w digits, zero padded (strftime's %m, %d, %H, %M, %S, %Y)
RECURSIVE ZeroPad(_, _)
ZeroPad(n, w) ==
    IF w <= 1 /\ n < 10 THEN <<DigitChar[n + 1]>>
    ELSE ZeroPad(n \div 10, w - 1) \o <<DigitChar[(n % 10) + 1]>>

----------------------------------------------------------------------------
(* datetime *)

IsLeap(y) == (y % 4 = 0 /\ y % 100 # 0) \/ y % 400 = 0

DaysInMonth(y, m) ==
    IF m = 2 THEN (IF IsLeap(y) THEN 29 ELSE 28)
    ELSE IF m \in {4, 6, 9, 11} THEN 30 ELSE 31

\* datetime(...) raises ValueError on a field out of range
DatetimeOk(y, mo, d, h, mi, s) ==
    /\ y >= 1 /\ y <= 9999
    /\ mo >= 1 /\ mo <= 12
    /\ d >= 1 /\ d <= DaysInMonth(y, mo)
    /\ h >= 0 /\ h <= 23
    /\ mi >= 0 /\ mi <= 59
    /\ s >= 0 /\ s <= 59

\* datetime ordering (<=)
DtKey(t) == <<t.year, t.month, t.day, t.hour, t.minute, t.second>>

RECURSIVE LexLeq(_, _, _)
LexLeq(a, b, i) ==
    IF i > Len(a) THEN TRUE
    ELSE IF a[i] < b[i] THEN TRUE
    ELSE IF a[i] > b[i] THEN FALSE
    ELSE LexLeq(a, b, i + 1)

DtLeq(a, b) == LexLeq(DtKey(a), DtKey(b), 1)

\* One numeric directive of strptime at position i, followed by what the format
\* demands next.  The directive's regex is an alternation of one- and two-digit
\* forms; the regex engine backtracks, so a form is taken only if the rest of the
\* format matches after it: the digits read are exactly the digit run at i.
\*   lens: the lengths the directive's alternation admits
\*   lo1:  the least value of its one-digit form
\*   lo2, hi2: the range of its two-digit (for %Y: four-digit) form
Directive(s, i, lens, lo1, lo2, hi2) ==
    LET n == DigitRun(s, i)
        v == IntOf(s, i, i + n - 1)
    IN  IF n \notin lens THEN [ok |-> FALSE, val |-> 0, next |-> i]
        ELSE IF n = 1 /\ v < lo1 THEN [ok |-> FALSE, val |-> 0, next |-> i]
        ELSE IF n > 1 /\ (v < lo2 \/ v > hi2) THEN [ok |-> FALSE, val |-> 0, next |-> i]
        ELSE [ok |-> TRUE, val |-> v, next |-> i + n]

\* %d also admits a space followed by one digit 1-9
DirectiveDay(s, i) ==
    IF CharAt(s, i) = " " /\ IsDigit(s, i + 1) /\ DigitRun(s, i + 1) = 1
       /\ DigitVal[s[i + 1]] >= 1
    THEN [ok |-> TRUE, val |-> DigitVal[s[i + 1]], next |-> i + 2]
    ELSE Directive(s, i, {1, 2}, 1, 1, 31)

\* datetime.strptime(s, '%Y-%m-%d %H:%M:%S'): the datetime, or ValueError
strptime(s) ==
    LET fail == [ok |-> FALSE, exc |-> "ValueError"]
        Y  == Directive(s, 1, {4}, 0, 0, 9999)
        mo == Directive(s, Y.next + 1, {1, 2}, 1, 1, 12)
        d  == DirectiveDay(s, mo.next + 1)
        sp == SpaceRun(s, d.next)
        H  == Directive(s, d.next + sp, {1, 2}, 0, 0, 23)
        M  == Directive(s, H.next + 1, {1, 2}, 0, 0, 59)
        S  == Directive(s, M.next + 1, {1, 2}, 0, 0, 61)
    IN  IF ~Y.ok \/ CharAt(s, Y.next) # "-" THEN fail
        ELSE IF ~mo.ok \/ CharAt(s, mo.next) # "-" THEN fail
        ELSE IF ~d.ok \/ sp < 1 THEN fail
        ELSE IF ~H.ok \/ CharAt(s, H.next) # ":" THEN fail
        ELSE IF ~M.ok \/ CharAt(s, M.next) # ":" THEN fail
        ELSE IF ~S.ok \/ S.next # Len(s) + 1 THEN fail
        ELSE IF ~DatetimeOk(Y.val, mo.val, d.val, H.val, M.val, S.val) THEN fail
        ELSE [ok |-> TRUE,
              dt |-> [year |-> Y.val, month |-> mo.val, day |-> d.val,
                      hour |-> H.val, minute |-> M.val, second |-> S.val]]

\* the same fields written without zero padding
strftime_unpadded(t) ==
    ZeroPad(t.year, 1) \o <<"-">> \o ZeroPad(t.month, 1) \o <<"-">> \o ZeroPad(t.day, 1)
    \o <<" ">> \o ZeroPad(t.hour, 1) \o <<":">> \o ZeroPad(t.minute, 1)
    \o <<":">> \o ZeroPad(t.second, 1)

\* t.strftime('%Y-%m-%d %H:%M:%S')
strftime_iso(t) ==
    ZeroPad(t.year, 4) \o <<"-">> \o ZeroPad(t.month, 2) \o <<"-">> \o ZeroPad(t.day, 2)
    \o <<" ">> \o ZeroPad(t.hour, 2) \o <<":">> \o ZeroPad(t.minute, 2)
    \o <<":">> \o ZeroPad(t.second, 2)

\* t.strftime('%m/%d/%Y %H:%M %p'): no seconds directive; %p is AM before noon
strftime_filter(t) ==
    ZeroPad(t.month, 2) \o <<"/">> \o ZeroPad(t.day, 2) \o <<"/">> \o ZeroPad(t.year, 4)
    \o <<" ">> \o ZeroPad(t.hour, 2) \o <<":">> \o ZeroPad(t.minute, 2)
    \o <<" ">> \o (IF t.hour < 12 THEN <<"A", "M">> ELSE <<"P", "M">>)

----------------------------------------------------------------------------
(* Regular expressions (module re), for patterns made of literal characters,  *)
(* the token \d+ and capturing parentheses.  A pattern is a sequence of       *)
(* tokens.                                                                    *)

D == "\\d+"

\* nesting depth after the tokens p[1..k], or -1 once a ")" closes nothing
RECURSIVE Depth(_, _)
Depth(p, k) ==
    IF k = 0 THEN 0
    ELSE LET d == Depth(p, k - 1)
         IN  IF d < 0 THEN d
             ELSE IF p[k] = "(" THEN d + 1
             ELSE IF p[k] = ")" THEN d - 1
             ELSE d

\* re.compile(p): the compiled pattern with its number of groups, or re.error
\* (unbalanced parenthesis / missing ")")
re_compile(p) ==
    IF Depth(p, Len(p)) # 0 THEN [ok |-> FALSE, exc |-> "re.error"]
    ELSE [ok |-> TRUE, pattern |-> p,
          groups |-> Cardinality({k \in 1..Len(p) : p[k] = "("})]

\* index of the token opening group 1, and of the ")" closing it
GroupOpen(p) == CHOOSE k \in 1..Len(p) :
                    p[k] = "(" /\ \A j \in 1..(k - 1) : p[j] # "("
GroupClose(p) == CHOOSE k \in (GroupOpen(p) + 1)..Len(p) :
                    /\ p[k] = ")"
                    /\ Depth(p, k) = Depth(p, GroupOpen(p)) - 1
                    /\ \A j \in (GroupOpen(p) + 1)..(k - 1) :
                           Depth(p, j) >= Depth(p, GroupOpen(p))

\* The backtracking matcher: the tokens p[k..] against s from position i.
\* A success is the sequence of the text positions at which the tokens k,
\* k+1, ..., Len(p) start, followed by the position the match ends at;
\* a failure is <<>>.  \d+ is greedy: the longest run of digits is tried first.
RECURSIVE MatchFrom(_, _, _, _), MatchDigits(_, _, _, _, _)
MatchFrom(p, k, s, i) ==
    IF k > Len(p) THEN <<i>>
    ELSE IF p[k] \in {"(", ")"} THEN
        LET r == MatchFrom(p, k + 1, s, i) IN IF r = <<>> THEN <<>> ELSE <<i>> \o r
    ELSE IF p[k] = D THEN MatchDigits(p, k, s, i, DigitRun(s, i))
    ELSE IF CharAt(s, i) = p[k] THEN
        LET r == MatchFrom(p, k + 1, s, i + 1) IN IF r = <<>> THEN <<>> ELSE <<i>> \o r
    ELSE <<>>
MatchDigits(p, k, s, i, n) ==
    IF n < 1 THEN <<>>
    ELSE LET r == MatchFrom(p, k + 1, s, i + n)
         IN  IF r # <<>> THEN <<i>> \o r ELSE MatchDigits(p, k, s, i, n - 1)

\* regex.search(s): scans the start positions left to right; the first position
\* with a match wins.  found is FALSE for search's None.
RECURSIVE SearchFrom(_, _, _)
SearchFrom(p, s, i) ==
    IF i > Len(s) + 1 THEN [found |-> FALSE, pos |-> <<>>]
    ELSE LET r == MatchFrom(p, 1, s, i)
         IN  IF r # <<>> THEN [found |-> TRUE, pos |-> r] ELSE SearchFrom(p, s, i + 1)

re_search(regex, s) == SearchFrom(regex.pattern, s, 1)

\* match.group(0) in place of match.group(1): the whole match, never an error
match_group0(regex, m, s) ==
    [ok |-> TRUE, val |-> SubSeq(s, m.pos[1], m.pos[Len(m.pos)] - 1)]

\* a group(1) that yields the empty text when the pattern has no group
match_group1_default(regex, m, s) ==
    IF regex.groups < 1 THEN [ok |-> TRUE, val |-> <<>>]
    ELSE [ok |-> TRUE,
          val |-> SubSeq(s, m.pos[GroupOpen(regex.pattern)],
                         m.pos[GroupClose(regex.pattern)] - 1)]

\* match.group(1): the text group 1 matched; IndexError ("no such group") when
\* the pattern has no group
match_group1(regex, m, s) ==
    IF regex.groups < 1 THEN [ok |-> FALSE, exc |-> "IndexError"]
    ELSE [ok |-> TRUE,
          val |-> SubSeq(s, m.pos[GroupOpen(regex.pattern)],
                         m.pos[GroupClose(regex.pattern)] - 1)]

----------------------------------------------------------------------------
(* Ordered mappings (dict, OrderedDict): sequences of <<key, value>> pairs   *)

Keys(d) == {d[k][1] : k \in 1..Len(d)}

Get(d, k) == (CHOOSE j \in 1..Len(d) : d[j][1] = k) 

Lookup(d, k) == d[Get(d, k)][2]

\* d[k] = v: replaces the value in place, or appends the new key
DictSet(d, k, v) ==
    IF k \in Keys(d)
    THEN [j \in 1..Len(d) |-> IF d[j][1] = k THEN <<k, v>> ELSE d[j]]
    ELSE Append(d, <<k, v>>)

----------------------------------------------------------------------------
(* extract_items *)

\* The loop of extract_items from the k-th item of regex_patterns on, with
\* extracted_items as built so far.  An exception ends the loop; searched counts
\* the patterns whose search completed before.
RECURSIVE ExtractLoop(_, _, _, _)
ExtractLoop(text, patterns, k, extracted_items) ==
    IF k > Len(patterns)
    THEN [status |-> "ok", items |-> extracted_items, searched |-> k - 1]
    ELSE LET item == patterns[k][1]
             regex == re_compile(patterns[k][2])
         IN  IF ~regex.ok
             THEN [status |-> regex.exc, items |-> extracted_items, searched |-> k - 1]
             ELSE LET match == re_search(regex, text)
                  IN  IF ~match.found
                      THEN ExtractLoop(text, patterns, k + 1, extracted_items)
                      ELSE LET g == match_group1(regex, match, text)
                           IN  IF ~g.ok
                               THEN [status |-> g.exc, items |-> extracted_items,
                                     searched |-> k]
                               ELSE ExtractLoop(text, patterns, k + 1,
                                                DictSet(extracted_items, item, g.val))

extract_items(text, patterns) == ExtractLoop(text, patterns, 1, <<>>)

----------------------------------------------------------------------------
(* The mail provider (Outlook through win32com): the inbox and Items.Restrict *)

\* The literal of one comparison of the filter, 'MM/DD/YYYY HH:MM AM|PM', read by
\* the provider: it carries no seconds, and its hour is the 24-hour hour that
\* strftime's %H wrote (the AM/PM suffix repeats what the hour says).
FilterLiteral(lit) ==
    [year |-> IntOf(lit, 7, 10), month |-> IntOf(lit, 1, 2), day |-> IntOf(lit, 4, 5),
     hour |-> IntOf(lit, 12, 13), minute |-> IntOf(lit, 15, 16), second |-> 0]

\* The received time as the provider compares it to a literal: with the seconds
\* it was stored with, or cut to the minute.  Which of the two is the provider's
\* business; the run may meet either.
Compared(t, granular) == IF granular THEN [t EXCEPT !.second = 0] ELSE t

\* folder.Items.Restrict("[ReceivedTime] >= 'lower' AND [ReceivedTime] <= 'upper'")
Restrict(items, filter, granular) ==
    SelectSeq(items, LAMBDA item :
        /\ DtLeq(FilterLiteral(filter.lower), Compared(item.ReceivedTime, granular))
        /\ DtLeq(Compared(item.ReceivedTime, granular), FilterLiteral(filter.upper)))

\* filter_str of read_outlook_emails
FilterStr(start, end) ==
    [lower |-> strftime_filter(start), upper |-> strftime_filter(end)]

\* the OrderedDict built for one item
EmailOf(item) ==
    << <<"Subject", item.Subject>>,
       <<"Sender", item.SenderName>>,
       <<"ReceivedTime", strftime_iso(item.ReceivedTime)>>,
       <<"Body", item.Body>> >>

\* read_outlook_emails(start_date, end_date) on a reachable provider
read_outlook_emails(start, end, items, granular) ==
    LET found == Restrict(items, FilterStr(start, end), granular)
    IN  [i \in 1..Len(found) |-> EmailOf(found[i])]

----------------------------------------------------------------------------
(* Bounds and input pools *)

MaxFields == 2      \* patterns in a pattern file
MaxInbox == 2       \* messages in the inbox
MaxBodyLen == 3     \* characters of a body given to extract_items alone

SeqsUpTo(S, n) == UNION {[1..k -> S] : k \in 0..n}

\* ordered mappings over a pool of <<item, pattern>> entries: the keys are distinct
Mappings(pool, n) ==
    {m \in SeqsUpTo(pool, n) : \A i, j \in 1..Len(m) : m[i][1] = m[j][1] => i = j}

PatOrder   == <<"order_id", <<"#", "(", D, ")">> >>          \* #(\d+)
PatNoGroup == <<"ticket",   <<"#", D>> >>                    \* #\d+
PatInvalid == <<"broken",   <<"#", "(", D>> >>               \* #(\d+
PatTwo     == <<"code",     <<"(", "x", ")", "(", D, ")">> >>  \* (x)(\d+)
PatBack    == <<"lead",     <<"(", D, ")", "4">> >>          \* (\d+)4

PatternPool == {PatOrder, PatNoGroup, PatInvalid, PatTwo, PatBack}
MainPatternPool == {PatOrder, PatNoGroup, PatInvalid, PatTwo}

BodyAlphabet == {"#", "4", "x"}

\* the scenario of the specification: Order #(\d+) on "Your Order #4521 has shipped."
ScenarioPatterns ==
    << <<"order_id", <<"O", "r", "d", "e", "r", " ", "#", "(", D, ")">> >> >>
ScenarioBody ==
    <<"Y", "o", "u", "r", " ", "O", "r", "d", "e", "r", " ", "#", "4", "5", "2", "1",
      " ", "h", "a", "s", " ", "s", "h", "i", "p", "p", "e", "d", ".">>
ScenarioNoOrder ==
    <<"N", "o", " ", "o", "r", "d", "e", "r", " ", "i", "n", "f", "o", " ",
      "h", "e", "r", "e", ".">>

Bodies == SeqsUpTo(BodyAlphabet, MaxBodyLen) \cup {ScenarioBody, ScenarioNoOrder}
PatternSets == Mappings(PatternPool, MaxFields) \cup {ScenarioPatterns}

\* date strings: every combination of these spellings of the fields
YearSpellings   == {<<"2", "0", "2", "3">>, <<"2", "0", "2", "4">>, <<"9", "9", "9">>}
MonthSpellings  == {<<"2">>, <<"0", "2">>, <<"1", "2">>, <<"1", "3">>}
DaySpellings    == {<<"5">>, <<"0", "5">>, <<" ", "5">>, <<"2", "9">>, <<"3", "0">>}
GapSpellings    == {<<" ">>, <<" ", " ">>, <<"T">>}
HourSpellings   == {<<"9">>, <<"0", "9">>, <<"2", "3">>, <<"2", "4">>}
MinuteSpellings == {<<"0">>, <<"0", "0">>, <<"5", "9">>}
SecondSpellings == {<<"7">>, <<"0", "7">>, <<"6", "0">>}

DateStrings ==
    {y \o <<"-">> \o mo \o <<"-">> \o d \o g \o h \o <<":">> \o mi \o <<":">> \o sec :
        y \in YearSpellings, mo \in MonthSpellings, d \in DaySpellings,
        g \in GapSpellings, h \in HourSpellings, mi \in MinuteSpellings,
        sec \in SecondSpellings}

\* the config strings of a run of main()
T100010 == <<"2", "0", "2", "3", "-", "0", "1", "-", "0", "5", " ",
             "1", "0", ":", "0", "0", ":", "1", "0">>
T100030 == [T100010 EXCEPT ![18] = "3"]
T100100 == [T100010 EXCEPT ![16] = "1", ![18] = "0"]
NoTime  == SubSeq(T100010, 1, 10)
ConfigDates == {T100010, T100030, T100100, NoTime}

\* config files that parse: start_date and end_date, each present or absent
Configs ==
    {<<>>}
    \cup {<< <<"start_date", a>> >> : a \in ConfigDates}
    \cup {<< <<"end_date", b>> >> : b \in ConfigDates}
    \cup {<< <<"start_date", a>>, <<"end_date", b>> >> : a \in ConfigDates, b \in ConfigDates}

At(h, mi, sec) ==
    [year |-> 2023, month |-> 1, day |-> 5, hour |-> h, minute |-> mi, second |-> sec]

MailPool ==
    {[Subject |-> <<"a">>, SenderName |-> <<"p">>, ReceivedTime |-> At(10, 0, 0),
      Body |-> <<"x", "#", "4", "2">>],
     [Subject |-> <<"b">>, SenderName |-> <<"q">>, ReceivedTime |-> At(10, 0, 20),
      Body |-> <<"x", "5">>],
     [Subject |-> <<"c">>, SenderName |-> <<"p">>, ReceivedTime |-> At(10, 0, 45),
      Body |-> <<"x", "1", "#", "7">>]}

Inboxes == SeqsUpTo(MailPool, MaxInbox)

Flags == {"--config-file", "--regex-file", "--verbose"}

----------------------------------------------------------------------------
(* main() *)

NoDate == At(0, 0, 0)

Separator == <<"--------------------------------", <<>> >>

\* print(f'{key}: {value}')
Line(k, v) == <<k, v>>

MainIdle ==
    /\ pc = "idle" /\ argv = {} /\ args = [config_file |-> None, regex_file |-> None]
    /\ opened = <<>> /\ regex_patterns = <<>> /\ config = <<>>
    /\ start_date = NoDate /\ end_date = NoDate
    /\ inbox = <<>> /\ minuteGranular = FALSE
    /\ filter_str = [lower |-> <<>>, upper |-> <<>>]
    /\ emails = <<>> /\ idx = 0 /\ key = 0 /\ stdout = <<>> /\ error = ""
    /\ stages = <<>> /\ queries = 0

ExIdle == ex_pc = "idle" /\ ex_text = <<>> /\ ex_patterns = <<>>
          /\ ex_result = [status |-> "", items |-> <<>>, searched |-> 0]

DtIdle == dt_pc = "idle" /\ dt_string = <<>> /\ dt_parsed = [ok |-> FALSE, exc |-> ""]
          /\ dt_out = <<>>

Init ==
    /\ pc = "parse_arguments"
    /\ argv \in SUBSET Flags
    /\ args = [config_file |-> None, regex_file |-> None]
    /\ opened = <<>> /\ regex_patterns = <<>> /\ config = <<>>
    /\ start_date = NoDate /\ end_date = NoDate
    /\ inbox = <<>> /\ minuteGranular = FALSE
    /\ filter_str = [lower |-> <<>>, upper |-> <<>>]
    /\ emails = <<>> /\ idx = 0 /\ key = 0 /\ stdout = <<>> /\ error = ""
    /\ stages = <<>> /\ queries = 0
    /\ ExIdle /\ DtIdle

\* an uncaught exception ends the run
Raise(exc) == pc' = "error" /\ error' = exc

\* args = parse_arguments(): argparse exits on a flag it was not told of; the two
\* flags it knows are optional to it, and one not given is None
ParseArguments ==
    /\ pc = "parse_arguments"
    /\ stages' = Append(stages, "parse_arguments")
    /\ IF argv \subseteq {"--config-file", "--regex-file"}
       THEN /\ args' = [config_file |-> IF "--config-file" \in argv
                                        THEN "config.yaml" ELSE None,
                        regex_file |-> IF "--regex-file" \in argv
                                       THEN "regex.yaml" ELSE None]
            /\ pc' = "load_regex_patterns"
            /\ error' = error
       ELSE /\ Raise("SystemExit")
            /\ args' = args
    /\ UNCHANGED <<argv, opened, regex_patterns, config, start_date, end_date, inbox,
                   minuteGranular, filter_str, emails, idx, key, stdout, queries>>
    /\ UNCHANGED <<exVars, dtVars>>

\* a loader that compiles every pattern as it loads the file
LoadRegexPatternsCompiling ==
    /\ pc = "load_regex_patterns"
    /\ stages' = Append(stages, "load_regex_patterns")
    /\ \/ /\ args.regex_file = None
          /\ Raise("TypeError")
          /\ UNCHANGED <<opened, regex_patterns>>
       \/ /\ args.regex_file # None
          /\ Raise("FileNotFoundError")
          /\ UNCHANGED <<opened, regex_patterns>>
       \/ /\ args.regex_file # None
          /\ opened' = Append(opened, args.regex_file)
          /\ Raise("YAMLError")
          /\ UNCHANGED regex_patterns
       \/ /\ args.regex_file # None
          /\ opened' = Append(opened, args.regex_file)
          /\ \E content \in Mappings(MainPatternPool, MaxFields) :
                 /\ regex_patterns' = content
                 /\ IF \A k \in 1..Len(content) : re_compile(content[k][2]).ok
                    THEN pc' = "load_config" /\ error' = error
                    ELSE Raise("re.error")
    /\ UNCHANGED <<argv, args, config, start_date, end_date, inbox, minuteGranular,
                   filter_str, emails, idx, key, stdout, queries>>
    /\ UNCHANGED <<exVars, dtVars>>

\* regex_patterns = load_regex_patterns(args.regex_file)
LoadRegexPatterns ==
    /\ pc = "load_regex_patterns"
    /\ stages' = Append(stages, "load_regex_patterns")
    /\ \/ /\ args.regex_file = None            \* open(None)
          /\ Raise("TypeError")
          /\ UNCHANGED <<opened, regex_patterns>>
       \/ /\ args.regex_file # None            \* no such file
          /\ Raise("FileNotFoundError")
          /\ UNCHANGED <<opened, regex_patterns>>
       \/ /\ args.regex_file # None            \* not YAML
          /\ opened' = Append(opened, args.regex_file)
          /\ Raise("YAMLError")
          /\ UNCHANGED regex_patterns
       \/ /\ args.regex_file # None
          /\ opened' = Append(opened, args.regex_file)
          /\ \E content \in Mappings(MainPatternPool, MaxFields) :
                 regex_patterns' = content
          /\ pc' = "load_config"
          /\ error' = error
    /\ UNCHANGED <<argv, args, config, start_date, end_date, inbox, minuteGranular,
                   filter_str, emails, idx, key, stdout, queries>>
    /\ UNCHANGED <<exVars, dtVars>>

\* config = load_config(args.config_file)
LoadConfig ==
    /\ pc = "load_config"
    /\ stages' = Append(stages, "load_config")
    /\ \/ /\ args.config_file = None
          /\ Raise("TypeError")
          /\ UNCHANGED <<opened, config>>
       \/ /\ args.config_file # None
          /\ Raise("FileNotFoundError")
          /\ UNCHANGED <<opened, config>>
       \/ /\ args.config_file # None
          /\ opened' = Append(opened, args.config_file)
          /\ Raise("YAMLError")
          /\ UNCHANGED config
       \/ /\ args.config_file # None
          /\ opened' = Append(opened, args.config_file)
          /\ \E content \in Configs : config' = content
          /\ pc' = "parse_start"
          /\ error' = error
    /\ UNCHANGED <<argv, args, regex_patterns, start_date, end_date, inbox,
                   minuteGranular, filter_str, emails, idx, key, stdout, queries>>
    /\ UNCHANGED <<exVars, dtVars>>

\* start_date = datetime.strptime(config['start_date'], '%Y-%m-%d %H:%M:%S')
ParseStart ==
    /\ pc = "parse_start"
    /\ stages' = Append(stages, "parse_start")
    /\ IF "start_date" \notin Keys(config)
       THEN Raise("KeyError") /\ start_date' = start_date
       ELSE LET r == strptime(Lookup(config, "start_date"))
            IN  IF r.ok
                THEN start_date' = r.dt /\ pc' = "parse_end" /\ error' = error
                ELSE Raise(r.exc) /\ start_date' = start_date
    /\ UNCHANGED <<argv, args, opened, regex_patterns, config, end_date, inbox,
                   minuteGranular, filter_str, emails, idx, key, stdout, queries>>
    /\ UNCHANGED <<exVars, dtVars>>

\* an end_date whose parse failure is swallowed: the run goes on to the query
ParseEndLenient ==
    /\ pc = "parse_end"
    /\ stages' = Append(stages, "parse_end")
    /\ IF "end_date" \notin Keys(config)
       THEN Raise("KeyError") /\ end_date' = end_date
       ELSE LET r == strptime(Lookup(config, "end_date"))
            IN  /\ end_date' = IF r.ok THEN r.dt ELSE end_date
                /\ pc' = "read_outlook_emails"
                /\ error' = error
    /\ UNCHANGED <<argv, args, opened, regex_patterns, config, start_date, inbox,
                   minuteGranular, filter_str, emails, idx, key, stdout, queries>>
    /\ UNCHANGED <<exVars, dtVars>>

\* end_date = datetime.strptime(config['end_date'], '%Y-%m-%d %H:%M:%S')
ParseEnd ==
    /\ pc = "parse_end"
    /\ stages' = Append(stages, "parse_end")
    /\ IF "end_date" \notin Keys(config)
       THEN Raise("KeyError") /\ end_date' = end_date
       ELSE LET r == strptime(Lookup(config, "end_date"))
            IN  IF r.ok
                THEN end_date' = r.dt /\ pc' = "read_outlook_emails" /\ error' = error
                ELSE Raise(r.exc) /\ end_date' = end_date
    /\ UNCHANGED <<argv, args, opened, regex_patterns, config, start_date, inbox,
                   minuteGranular, filter_str, emails, idx, key, stdout, queries>>
    /\ UNCHANGED <<exVars, dtVars>>

\* emails = read_outlook_emails(start_date, end_date): the provider cannot be
\* reached (Dispatch raises), or it answers the query on the inbox it holds
ReadOutlookEmails ==
    /\ pc = "read_outlook_emails"
    /\ stages' = Append(stages, "read_outlook_emails")
    /\ \/ /\ Raise("com_error")
          /\ UNCHANGED <<inbox, minuteGranular, filter_str, emails, queries>>
       \/ \E items \in Inboxes, granular \in BOOLEAN :
              /\ inbox' = items
              /\ minuteGranular' = granular
              /\ filter_str' = FilterStr(start_date, end_date)
              /\ queries' = queries + 1
              /\ emails' = read_outlook_emails(start_date, end_date, items, granular)
              /\ pc' = "for_email"
              /\ error' = error
    /\ UNCHANGED <<argv, args, opened, regex_patterns, config, start_date, end_date,
                   idx, key, stdout>>
    /\ UNCHANGED <<exVars, dtVars>>

\* where the loop goes after the key-th key of the idx-th email
AfterKey == IF key + 1 > Len(emails[idx]) THEN "separator" ELSE "print_field"

\* for email in emails: the next email, or the end of main()
ForEmail ==
    /\ pc = "for_email"
    /\ stages' = IF idx = 0 THEN Append(stages, "report") ELSE stages
    /\ IF idx + 1 > Len(emails)
       THEN pc' = "done" /\ UNCHANGED <<idx, key>>
       ELSE pc' = "print_field" /\ idx' = idx + 1 /\ key' = 1
    /\ UNCHANGED <<argv, args, opened, regex_patterns, config, start_date, end_date,
                   inbox, minuteGranular, filter_str, emails, stdout, error, queries>>
    /\ UNCHANGED <<exVars, dtVars>>

\* print(f'{key}: {value}'); on the key Body the extraction follows
PrintField ==
    /\ pc = "print_field"
    /\ stdout' = Append(stdout, Line(emails[idx][key][1], emails[idx][key][2]))
    /\ IF emails[idx][key][1] = "Body"
       THEN pc' = "extract" /\ key' = key
       ELSE pc' = AfterKey /\ key' = key + 1
    /\ UNCHANGED <<argv, args, opened, regex_patterns, config, start_date, end_date,
                   inbox, minuteGranular, filter_str, emails, idx, error, stages, queries>>
    /\ UNCHANGED <<exVars, dtVars>>

\* the lines of extracted_items, last item first
ItemLinesReversed(items) ==
    [j \in 1..Len(items) |-> Line(items[Len(items) + 1 - j][1], items[Len(items) + 1 - j][2])]

\* the lines printed for extracted_items
ItemLines(items) == [j \in 1..Len(items) |-> Line(items[j][1], items[j][2])]

\* an extraction that prints each item as it is found: the items found before
\* an exception are on the output when it is raised
ExtractBodyPrintingAsFound ==
    /\ pc = "extract"
    /\ LET r == extract_items(emails[idx][key][2], regex_patterns)
       IN  IF r.status = "ok"
           THEN /\ stdout' = stdout \o ItemLines(r.items)
                /\ pc' = AfterKey
                /\ key' = key + 1
                /\ error' = error
           ELSE /\ Raise(r.status)
                /\ stdout' = stdout \o ItemLines(r.items)
                /\ UNCHANGED key
    /\ UNCHANGED <<argv, args, opened, regex_patterns, config, start_date, end_date,
                   inbox, minuteGranular, filter_str, emails, idx, stages, queries>>
    /\ UNCHANGED <<exVars, dtVars>>

\* extracted_items = extract_items(value, regex_patterns) and the loop printing
\* its items; an exception of extract_items leaves main() before any of them
ExtractBody ==
    /\ pc = "extract"
    /\ LET r == extract_items(emails[idx][key][2], regex_patterns)
       IN  IF r.status = "ok"
           THEN /\ stdout' = stdout \o ItemLines(r.items)
                /\ pc' = AfterKey
                /\ key' = key + 1
                /\ error' = error
           ELSE /\ Raise(r.status)
                /\ UNCHANGED <<stdout, key>>
    /\ UNCHANGED <<argv, args, opened, regex_patterns, config, start_date, end_date,
                   inbox, minuteGranular, filter_str, emails, idx, stages, queries>>
    /\ UNCHANGED <<exVars, dtVars>>

\* print('--------------------------------')
PrintSeparator ==
    /\ pc = "separator"
    /\ stdout' = Append(stdout, Separator)
    /\ pc' = "for_email"
    /\ UNCHANGED <<argv, args, opened, regex_patterns, config, start_date, end_date,
                   inbox, minuteGranular, filter_str, emails, idx, key, error, stages,
                   queries>>
    /\ UNCHANGED <<exVars, dtVars>>

Next ==
    \/ ParseArguments
    \/ LoadRegexPatterns
    \/ LoadConfig
    \/ ParseStart
    \/ ParseEnd
    \/ ReadOutlookEmails
    \/ ForEmail
    \/ PrintField
    \/ ExtractBody
    \/ PrintSeparator

Spec == Init /\ [][Next]_vars

----------------------------------------------------------------------------
(* extract_items applied to every body and pattern set of the bounds *)

ExtractInit ==
    /\ MainIdle /\ DtIdle
    /\ ex_pc = "call"
    /\ ex_text \in Bodies
    /\ ex_patterns \in PatternSets
    /\ ex_result = [status |-> "", items |-> <<>>, searched |-> 0]

ExtractReturn ==
    /\ ex_pc = "call"
    /\ extract_items(ex_text, ex_patterns).status = "ok"
    /\ ex_result' = extract_items(ex_text, ex_patterns)
    /\ ex_pc' = "returned"
    /\ UNCHANGED <<ex_text, ex_patterns, mainVars, dtVars>>

ExtractRaise ==
    /\ ex_pc = "call"
    /\ extract_items(ex_text, ex_patterns).status # "ok"
    /\ ex_result' = extract_items(ex_text, ex_patterns)
    /\ ex_pc' = "raised"
    /\ UNCHANGED <<ex_text, ex_patterns, mainVars, dtVars>>

ExtractNext == ExtractReturn \/ ExtractRaise

SpecExtract == ExtractInit /\ [][ExtractNext]_vars

----------------------------------------------------------------------------
(* strptime and strftime applied to every date string of the bounds *)

DatesInit ==
    /\ MainIdle /\ ExIdle
    /\ dt_pc = "strptime"
    /\ dt_string \in DateStrings
    /\ dt_parsed = [ok |-> FALSE, exc |-> ""]
    /\ dt_out = <<>>

\* datetime.strptime(config[...], '%Y-%m-%d %H:%M:%S')
Strptime ==
    /\ dt_pc = "strptime"
    /\ dt_parsed' = strptime(dt_string)
    /\ dt_pc' = IF strptime(dt_string).ok THEN "strftime" ELSE "raised"
    /\ UNCHANGED <<dt_string, dt_out, mainVars, exVars>>

\* the parsed datetime written with the same format string
Strftime ==
    /\ dt_pc = "strftime"
    /\ dt_out' = strftime_iso(dt_parsed.dt)
    /\ dt_pc' = "done"
    /\ UNCHANGED <<dt_string, dt_parsed, mainVars, exVars>>

DatesNext == Strptime \/ Strftime

SpecDates == DatesInit /\ [][DatesNext]_vars

----------------------------------------------------------------------------
(* What the claims speak of, stated without the code's loops *)

IsPrefix(a, b) == Len(a) <= Len(b) /\ SubSeq(b, 1, Len(a)) = a

Last(q) == q[Len(q)]

Range(q) == {q[i] : i \in 1..Len(q)}

Compiles(p) == re_compile(p).ok
GroupCount(p) == re_compile(p).groups
ZeroGroup(p) == Compiles(p) /\ GroupCount(p) = 0
AllGrouped(ps) == \A k \in 1..Len(ps) : Compiles(ps[k][2]) /\ GroupCount(ps[k][2]) >= 1

\* the positions of s at which a match of p starts
MatchStarts(p, s) == {i \in 1..(Len(s) + 1) : MatchFrom(p, 1, s, i) # <<>>}
Matches(p, s) == MatchStarts(p, s) # {}
Leftmost(p, s) == CHOOSE i \in MatchStarts(p, s) : \A j \in MatchStarts(p, s) : i <= j

\* the text of group 1 in the leftmost match of p in s
FirstGroup(p, s) ==
    LET r == MatchFrom(p, 1, s, Leftmost(p, s))
    IN  SubSeq(s, r[GroupOpen(p)], r[GroupClose(p)] - 1)

\* the fields of ps, in order, whose pattern matches s
RECURSIVE MatchingFields(_, _, _)
MatchingFields(ps, s, k) ==
    IF k > Len(ps) THEN <<>>
    ELSE (IF Matches(ps[k][2], s) THEN <<k>> ELSE <<>>) \o MatchingFields(ps, s, k + 1)

\* the lines the report owes for the body s under the patterns ps
ExpectedItemLines(ps, s) ==
    LET f == MatchingFields(ps, s, 1)
    IN  [j \in 1..Len(f) |-> <<ps[f[j]][1], FirstGroup(ps[f[j]][2], s)>>]

\* the four labelled lines of an email
FieldLines(email) ==
    << <<"Subject", email[1][2]>>, <<"Sender", email[2][2]>>,
       <<"ReceivedTime", email[3][2]>>, <<"Body", email[4][2]>> >>

ExpectedBlock(email, ps) ==
    FieldLines(email) \o ExpectedItemLines(ps, email[4][2]) \o <<Separator>>

\* the blocks of the first n emails, one after the other
RECURSIVE ExpectedReport(_, _, _)
ExpectedReport(es, ps, n) ==
    IF n = 0 THEN <<>>
    ELSE ExpectedReport(es, ps, n - 1) \o ExpectedBlock(es[n], ps)

SeparatorCount(out) == Cardinality({i \in 1..Len(out) : out[i] = Separator})

InReport == Len(stages) >= 1 /\ Last(stages) = "report"

----------------------------------------------------------------------------
(* Claims about extract_items (SpecExtract) *)

\* C1: for patterns that each have at least one capture group, extract_items
\* returns a mapping whose keys are exactly the fields whose pattern matches
\* somewhere in the body, in pattern order, each with the first capture group of
\* the leftmost match; a field without a match is absent, so a body matching
\* nothing gives the empty mapping; Order #(\d+) on "Your Order #4521 has
\* shipped." gives {order_id: 4521} and on "No order info here." gives {}.
C1_ExtractExactlyTheMatches ==
    (ex_pc # "call" /\ AllGrouped(ex_patterns)) =>
        /\ ex_pc = "returned"
        /\ ex_result.status = "ok"
        /\ Keys(ex_result.items) =
               {ex_patterns[k][1] : k \in {j \in 1..Len(ex_patterns) :
                                               Matches(ex_patterns[j][2], ex_text)}}
        /\ \A k \in 1..Len(ex_patterns) :
               Matches(ex_patterns[k][2], ex_text) =>
                   Lookup(ex_result.items, ex_patterns[k][1])
                       = FirstGroup(ex_patterns[k][2], ex_text)
        /\ ex_result.items = ExpectedItemLines(ex_patterns, ex_text)
        /\ ((\A k \in 1..Len(ex_patterns) : ~Matches(ex_patterns[k][2], ex_text))
               => ex_result.items = <<>>)
        /\ (ex_patterns = ScenarioPatterns /\ ex_text = ScenarioBody
               => ex_result.items = << <<"order_id", <<"4", "5", "2", "1">> >> >>)
        /\ (ex_patterns = ScenarioPatterns /\ ex_text = ScenarioNoOrder
               => ex_result.items = <<>>)

\* two grouped patterns, one matching and one not: one key, whose value is a
\* proper part of the matched text
C1_Witness ==
    /\ ex_pc = "returned"
    /\ AllGrouped(ex_patterns)
    /\ Len(ex_patterns) = 2
    /\ Len(ex_result.items) = 1
    /\ ex_result.items[1][1] = ex_patterns[2][1]
    /\ ex_result.items[1][2] = <<"4">>

HasZeroGroup(ps) == \E k \in 1..Len(ps) : ZeroGroup(ps[k][2])

FailsAt(ps, s, k) ==
    \/ ~Compiles(ps[k][2])
    \/ ZeroGroup(ps[k][2]) /\ Matches(ps[k][2], s)
FirstFailure(ps, s, k) ==
    FailsAt(ps, s, k) /\ \A j \in 1..(k - 1) : ~FailsAt(ps, s, j)

----------------------------------------------------------------------------
(* Claims about the date round trip (SpecDates) *)

\* the fixed-width form YYYY-MM-DD HH:MM:SS
FixedWidth(s) ==
    /\ Len(s) = 19
    /\ \A i \in 1..19 :
           IF i \in {5, 8} THEN s[i] = "-"
           ELSE IF i = 11 THEN s[i] = " "
           ELSE IF i \in {14, 17} THEN s[i] = ":"
           ELSE s[i] \in Digits

\* C9 as stated: every date string that strptime accepts is reproduced exactly by
\* writing the parsed datetime with the same format string.
C9_RoundTripExact ==
    dt_pc = "done" => dt_out = dt_string

\* C9 amended: the datetime parsed from an accepted string, written with the same
\* format string, gives the fixed-width zero-padded spelling of the same
\* datetime; it equals the original string exactly when the original is already
\* in that fixed-width form (strptime also accepts one-digit and space-padded
\* fields and runs of spaces, which are not reproduced).
C9_RoundTripFixedWidth ==
    dt_pc = "done" =>
        /\ FixedWidth(dt_out)
        /\ strptime(dt_out).ok
        /\ strptime(dt_out).dt = dt_parsed.dt
        /\ (dt_out = dt_string) <=> FixedWidth(dt_string)

\* an accepted fixed-width string, reproduced
C9_Witness ==
    /\ dt_pc = "done"
    /\ FixedWidth(dt_string)
    /\ dt_out = dt_string

----------------------------------------------------------------------------
(* Claims about a run of main() (Spec) *)

HasInvalid(ps) == \E k \in 1..Len(ps) : ~Compiles(ps[k][2])
FirstInvalid(ps) == CHOOSE k \in 1..Len(ps) :
                        ~Compiles(ps[k][2]) /\ \A j \in 1..(k - 1) : Compiles(ps[j][2])

\* C2: the output is, email by email in the order of emails, the Subject,
\* Sender, ReceivedTime and Body lines, then one line per extracted field in
\* pattern order, then one separator; at every moment the output is the complete
\* blocks of the emails already finished followed by the lines of the one in
\* progress, and at the end the separators are as many as the emails.
C2_ReportBlocks ==
    InReport =>
        LET n    == SeparatorCount(stdout)
            done == ExpectedReport(emails, regex_patterns, n)
            tail == SubSeq(stdout, Len(done) + 1, Len(stdout))
        IN  /\ n <= Len(emails)
            /\ IsPrefix(done, stdout)
            /\ IF n = Len(emails) THEN tail = <<>>
               ELSE \/ IsPrefix(tail, FieldLines(emails[n + 1]))
                    \/ /\ pc = "separator"
                       /\ tail = FieldLines(emails[n + 1])
                                 \o ExpectedItemLines(regex_patterns, emails[n + 1][4][2])
            /\ pc = "done" =>
                   /\ n = Len(emails)
                   /\ stdout = ExpectedReport(emails, regex_patterns, Len(emails))

\* two emails, two patterns: the first email gets exactly one extracted line (the
\* separator is the sixth line), the second gets two
C2_Witness ==
    /\ pc = "done"
    /\ Len(emails) = 2
    /\ Len(regex_patterns) = 2
    /\ stdout[6] = Separator
    /\ Len(stdout) = 13

\* the inbox messages received within [start, end], compared to the second
RECURSIVE WithinRange(_, _, _)
WithinRange(items, start, end) ==
    IF items = <<>> THEN <<>>
    ELSE (IF DtLeq(start, Head(items).ReceivedTime) /\ DtLeq(Head(items).ReceivedTime, end)
          THEN <<EmailOf(Head(items))>> ELSE <<>>)
         \o WithinRange(Tail(items), start, end)

\* C3 as stated: the provider query returns exactly the inbox messages whose
\* received time t satisfies start_date <= t <= end_date, to the second.
C3_InclusiveToTheSecond ==
    queries = 1 => emails = WithinRange(inbox, start_date, end_date)

\* C4 as stated: with start_date later than end_date (be it by seconds only) the
\* query returns no message and raises nothing, so the run prints nothing and
\* ends normally.
C4_InvertedRangeIsEmpty ==
    (queries = 1 /\ ~DtLeq(start_date, end_date)) =>
        /\ emails = <<>>
        /\ stdout = <<>>
        /\ error = ""

\* C5 as stated: a run given without --config-file or without --regex-file is
\* rejected by the argument parsing itself, before any file is opened, any query
\* made, anything printed.
C5_MissingFlagRejectedByParser ==
    (~({"--config-file", "--regex-file"} \subseteq argv) /\ pc # "parse_arguments") =>
        /\ pc = "error"
        /\ stages = <<"parse_arguments">>
        /\ opened = <<>>
        /\ queries = 0
        /\ stdout = <<>>

\* C6: when extract_items raises on the k-th email the run ends there: the output
\* is the complete blocks of the emails 1..k-1 followed by the four labelled
\* lines of email k, with no extracted line, no separator for email k and nothing
\* of a later email, and nothing more is ever executed.
C6_ExtractionFailureStopsRun ==
    (pc = "error" /\ InReport) =>
        /\ error \in {"re.error", "IndexError"}
        /\ idx >= 1 /\ idx <= Len(emails)
        /\ stdout = ExpectedReport(emails, regex_patterns, idx - 1)
                    \o FieldLines(emails[idx])
        /\ SeparatorCount(stdout) = idx - 1
        /\ Last(stdout) = <<"Body", emails[idx][4][2]>>
        /\ ~ENABLED Next

\* the failure comes at the second email, after a first complete block that
\* holds an extracted line
C6_Witness ==
    /\ pc = "error" /\ InReport
    /\ idx = 2
    /\ Len(stdout) > 9

\* C7: a pattern that does not compile makes load_regex_patterns fail in no way;
\* re.error is raised only in the report, at the first email, after the patterns
\* before the invalid one were searched and the email's four lines printed; every
\* run that holds an invalid pattern ends within its first email, and with no
\* email it ends without error.
C7_InvalidPatternSurfacesLazily ==
    /\ (error = "re.error") =>
           /\ InReport /\ pc = "error"
           /\ idx = 1
           /\ HasInvalid(regex_patterns)
           /\ extract_items(emails[1][4][2], regex_patterns).searched
                  = FirstInvalid(regex_patterns) - 1
           /\ \A j \in 1..(FirstInvalid(regex_patterns) - 1) :
                  ~FailsAt(regex_patterns, emails[1][4][2], j)
           /\ stdout = FieldLines(emails[1])
    /\ (HasInvalid(regex_patterns) /\ Len(stages) = 2) => pc = "load_config"
    /\ (HasInvalid(regex_patterns) /\ queries = 1 /\ emails # <<>>) =>
           (idx <= 1 /\ pc # "done" /\ SeparatorCount(stdout) = 0)
    /\ (HasInvalid(regex_patterns) /\ queries = 1 /\ emails = <<>>) =>
           (error = "" /\ pc \in {"for_email", "done"} /\ stdout = <<>>)

\* the invalid pattern is the second; the first was searched before it raised
C7_Witness ==
    /\ error = "re.error"
    /\ Len(regex_patterns) = 2
    /\ ~Compiles(regex_patterns[2][2])
    /\ Matches(regex_patterns[1][2], emails[1][4][2])

StageOrder == <<"parse_arguments", "load_regex_patterns", "load_config", "parse_start",
                "parse_end", "read_outlook_emails", "report">>

\* C10: the stages of a run come in the fixed order parse arguments, load pattern
\* file, load config file, parse start_date, parse end_date, provider query,
\* report; the provider is queried at most once and only after every earlier
\* stage succeeded; a failure before the query leaves the provider untouched and
\* the output empty; a failing pattern file ends the run before the config file
\* is touched.
C10_StageOrder ==
    /\ IsPrefix(stages, StageOrder)
    /\ queries <= 1
    /\ queries = 1 =>
           /\ Len(stages) >= 6
           /\ opened = <<"regex.yaml", "config.yaml">>
           /\ {"start_date", "end_date"} \subseteq Keys(config)
           /\ strptime(Lookup(config, "start_date")).ok
           /\ strptime(Lookup(config, "end_date")).ok
           /\ start_date = strptime(Lookup(config, "start_date")).dt
           /\ end_date = strptime(Lookup(config, "end_date")).dt
    /\ stdout # <<>> => queries = 1
    /\ (pc = "error" /\ Len(stages) <= 5) => (queries = 0 /\ stdout = <<>>)
    /\ (pc = "error" /\ Len(stages) = 2) => (config = <<>> /\ "config.yaml" \notin Range(opened))

\* a date that does not parse ends the run before the query
C10_Witness ==
    /\ pc = "error"
    /\ error = "ValueError"
    /\ stages = SubSeq(StageOrder, 1, 5)
    /\ queries = 0

====
